---- MODULE Spec2Model ----
(***************************************************************************)
(* A model of tosc: a distributed shared-object store with optimistic,     *)
(* multi-version concurrency control.  Managers (participants) share one   *)
(* versioned backend; every Manager has one user thread and one watcher    *)
(* thread.  The stored graph is a single root container whose value is a   *)
(* set of elements; mutating methods add an element to it.                 *)
(*                                                                         *)
(* Specifications:                                                         *)
(*   SpecBackend  the backends' read / write / try_write alone             *)
(*   Spec         one Manager (user thread, watcher thread, explicit       *)
(*                transactions, kept proxies) and another participant's    *)
(*                writes                                                   *)
(*   SpecAuto     one Manager whose mutating methods commit by themselves  *)
(*   SpecPair     two Managers on copies of one backend                    *)
(*   SpecRetry    a function wrapped by transactional                      *)
(*   SpecRead     one Manager on either backend: kept proxies, refresh     *)
(*                and read with a default                                  *)
(*   SpecWatch    the watcher thread's life, with fairness                 *)
(*   SpecPickle   dump and load                                            *)
(*   SpecIds      dump and load next to another participant's blobs        *)
(*   SpecHandle   backend handles, set_id and Manager construction         *)
(*   SpecLock     write and the watcher's refresh, statement by statement  *)
(*   SpecFresh    reads through kept proxies during the watcher's refresh  *)
(*   SpecNest     nested transaction blocks                                *)
(*   SpecFail     commits on a backend whose try_write may raise           *)
(*   SpecMono     one Manager's version, root and objmap over whole calls  *)
(***************************************************************************)
EXTENDS Integers, Sequences, FiniteSets, TLC

\* ------------------------------------------------------------------ bounds
\* The backend version never exceeds MaxVersion (writes are disabled there).
MaxVersion == 3
\* ... and MaxTxVersion where the caller opens explicit transactions.
MaxTxVersion == 2
\* transactional is called with retries in None, 0..MaxRetries and timeout in
\* None, 0..MaxTimeout; the clock stops at MaxNow.
MaxRetries == 2
MaxTimeout == 1
MaxNow == 2
\* Elements a mutating method may add are 1..MaxTag.
MaxTag == 1

\* The participants: Manager m has unique_id m.
Mgrs == {1, 2}
\* unique_id None
NoUid == 0
\* the version read() reports with (None, None)
NoneVer == 0 - 1

Tags == 1 .. MaxTag
Values == SUBSET Tags

VARIABLES
  be,      \* the backend's shared state (InprocData / the file)
  bcall,   \* the last call made directly on a backend handle, with its result
  mgr,     \* mgr[m]: Manager m, its Transaction, its proxies and their values
  usr,     \* usr[m]: the user thread of Manager m (position and locals)
  wat,     \* wat[m]: the watcher thread of Manager m
  call,    \* the frame of a call to a function wrapped by transactional
  now,     \* the clock that time() reads
  hnd      \* hnd[h]: backend handle h (its unique id, what it remembers)

vars == <<be, bcall, mgr, usr, wat, call, now, hnd>>

\* ----------------------------------------------------------------- backends
\* A payload is <<>> (nothing stored, None) or a one-element sequence.
EmptyBackend(kind) ==
  [kind |-> kind, version |-> 0, bvec |-> <<>>, notifier |-> NoUid]

\* InprocBackend.read
Inproc_read(b) ==
  IF b.bvec = <<>> THEN [version |-> NoneVer, payload |-> <<>>]
  ELSE [version |-> b.version, payload |-> b.bvec]

Inproc_notify_twice(b, uid, new) ==
  [b EXCEPT !.bvec = <<new>>, !.version = b.version + 2, !.notifier = uid]

\* InprocBackend._notify: store, bump the version, remember the writer
Inproc_notify(b, uid, new) ==
  [b EXCEPT !.bvec = <<new>>, !.version = b.version + 1, !.notifier = uid]

\* InprocBackend.write
Inproc_write(b, uid, new) ==
  [be |-> Inproc_notify(b, uid, new),
   version |-> Inproc_notify(b, uid, new).version]

Inproc_try_write_nocheck(b, uid, new, expected) ==
  [be |-> Inproc_notify(b, uid, new), ok |-> TRUE,
   version |-> Inproc_notify(b, uid, new).version]

\* InprocBackend.try_write
Inproc_try_write(b, uid, new, expected) ==
  IF b.version # expected
  THEN [be |-> b, ok |-> FALSE, version |-> b.version]
  ELSE [be |-> Inproc_notify(b, uid, new), ok |-> TRUE,
        version |-> Inproc_notify(b, uid, new).version]

\* FileBackend._get_version: the header's version, 0 when there is no file
File_get_version(b) == IF b.bvec = <<>> THEN 0 ELSE b.version

\* FileBackend.read
File_read(b) ==
  IF b.bvec = <<>> THEN [version |-> 0, payload |-> <<>>]
  ELSE [version |-> b.version, payload |-> b.bvec]

\* FileBackend.write: header (version + 1, unique_id), payload, rename
File_write(b, uid, new) ==
  [be |-> [b EXCEPT !.bvec = <<new>>, !.version = File_get_version(b) + 1,
                    !.notifier = uid],
   version |-> File_get_version(b) + 1]

\* FileBackend.try_write
File_try_write(b, uid, new, expected) ==
  IF File_get_version(b) # expected
  THEN [be |-> b, ok |-> FALSE, version |-> File_get_version(b)]
  ELSE [be |-> [b EXCEPT !.bvec = <<new>>, !.version = expected + 1,
                         !.notifier = uid],
        ok |-> TRUE, version |-> expected + 1]

\* BaseBackend's interface, dispatched on the concrete backend
Backend_read(b) ==
  IF b.kind = "inproc" THEN Inproc_read(b) ELSE File_read(b)

Backend_write(b, uid, new) ==
  IF b.kind = "inproc" THEN Inproc_write(b, uid, new)
  ELSE File_write(b, uid, new)

Backend_try_write(b, uid, new, expected) ==
  IF b.kind = "inproc" THEN Inproc_try_write(b, uid, new, expected)
  ELSE File_try_write(b, uid, new, expected)


\* ------------------------------------------------------- Manager state
\* Proxy slots and value cells of one process.  A slot or a cell that nothing
\* refers to any more is free (garbage collected) and is reused.
\* The user keeps at most MaxHeld proxies at a time; an open transaction at
\* most MaxDepth nested with-blocks.
MaxHeld == 1
MaxDepth == 1
\* alive proxies: the held ones, the root, a load in progress, and the traced
\* roots that writes inside one transaction replaced
MaxProx == MaxHeld + MaxVersion + 1
Slots == 1 .. MaxProx
MaxCells == MaxProx + 2
Cells == 1 .. MaxCells
\* Object ids: a Manager draws at most one id per backend version.
MaxXid == MaxVersion + 1
Xids == 1 .. MaxXid

\* a pickled root: the root DObject's (subobj, xid); xid 0 is "unassigned"
NoPayload == [xid |-> 0, val |-> {}]
Payloads == [xid : {0, 1}, val : Values]

\* DObject: subobj is a cell, att is "dmgr is not None"
FreeProx == [xid |-> 0, sub |-> 0, version |-> 0, att |-> FALSE]

\* objmap / new_objmap: xid -> slot, 0 where the dict has no entry
EmptyMap == [x \in Xids |-> 0]

\* Transaction.__init__.  entry is history kept for the claims: the Manager's
\* version and the root's value when the caller's outermost with-block opened.
NewTransaction == [depth |-> 0, version |-> 0, objs |-> <<>>, entry |-> <<>>]

\* Manager.__init__ (root 0 is NIL); backend is the handle it was given, 0
\* until the constructor is called
NewManager ==
  [version |-> 0, root |-> 0, objmap |-> EmptyMap, new_objmap |-> EmptyMap,
   xidc |-> 1, cur_trans |-> FALSE, needs_update |-> FALSE,
   tr |-> NewTransaction,
   prox |-> [p \in Slots |-> FreeProx], heap |-> [c \in Cells |-> {}],
   held |-> {}, lock |-> "free", backend |-> 0]

\* the user thread between two calls; out is the exception its last call
\* raised ("False": try_write returned false), "none" when it returned; res
\* is what a refresh, read or load it asked to watch returned; berr: the
\* backend raised inside the commit's try_write
UIdle(out) ==
  [pc |-> "idle", p |-> 0, prev |-> 0, trace |-> FALSE, exc |-> FALSE,
   ret |-> FALSE, exp |-> 0, wver |-> 0, payload |-> NoPayload, out |-> out,
   res |-> "none", berr |-> FALSE]

\* BaseBackend.__init__ / FileBackend.__init__: no id, nothing remembered
NewHandle == [unique_id |-> NoUid, last_modified |-> NoneVer]

\* the watcher thread was started and has not run yet: its local variable
\* self is unbound; payload is what its refresh read and is loading
NewWatcher ==
  [pc |-> "start", version |-> 0, self |-> FALSE, payload |-> NoPayload]

\* no call was made directly on a backend handle (h is the handle)
NoCall ==
  [op |-> "none", uid |-> NoUid, new |-> NoPayload, expected |-> 0,
   ok |-> FALSE, version |-> 0, pre |-> EmptyBackend("inproc"), h |-> 0]

\* no call to a function wrapped by transactional was made; None is NoneVer
NoFrame ==
  [pc |-> "none", retries |-> NoneVer, timeout |-> NoneVer,
   num_retries |-> NoneVer, deadline |-> NoneVer, start |-> 0, failed |-> 0,
   invoked |-> 0, checked |-> NoneVer, outcome |-> "none"]

Min(S) == CHOOSE x \in S : \A y \in S : x <= y

\* what the process still refers to
ProxRoots(M, U) ==
  M.held \cup {M.root} \cup {M.objmap[x] : x \in Xids}
    \cup {M.new_objmap[x] : x \in Xids}
    \cup {M.tr.objs[i].p : i \in DOMAIN M.tr.objs} \cup {U.p}

CellRoots(M, U) ==
  {M.prox[p].sub : p \in ProxRoots(M, U) \ {0}}
    \cup {M.tr.objs[i].prev : i \in DOMAIN M.tr.objs} \cup {U.prev}

\* The same references in a fixed order: the root, the object maps by xid,
\* the traced proxies, the thread's proxy, the held proxies.
ProxRefs(M, U) ==
  <<M.root>> \o [x \in Xids |-> M.objmap[x]]
    \o [x \in Xids |-> M.new_objmap[x]]
    \o [i \in DOMAIN M.tr.objs |-> M.tr.objs[i].p] \o <<U.p>>
    \o [p \in Slots |-> IF p \in M.held THEN p ELSE 0]

\* the rank of s among the distinct non-zero entries of seq, by first
\* occurrence (0 for 0)
Rank(seq, s) ==
  IF s = 0 THEN 0
  ELSE LET first == Min({j \in DOMAIN seq : seq[j] = s})
       IN Cardinality({seq[j] : j \in 1 .. first} \ {0})

\* Garbage collection: forget what nothing refers to, and name the live
\* proxies and cells by their rank, so that a state does not depend on which
\* addresses the allocator happened to reuse.  Values that are never read
\* again are forgotten too: a closed Transaction's version (__enter__
\* overwrites it) and a detached proxy's version (dmgr is tested first).
GC(M, U) ==
  LET praw == ProxRefs(M, U)
      live == ProxRoots(M, U) \ {0}
      np == Cardinality(live)
      OldSlot(k) == CHOOSE s \in live : Rank(praw, s) = k
      craw == [k \in Slots |-> IF k <= np THEN M.prox[OldSlot(k)].sub ELSE 0]
                \o [i \in DOMAIN M.tr.objs |-> M.tr.objs[i].prev]
                \o <<U.prev>>
      clive == CellRoots(M, U) \ {0}
      nc == Cardinality(clive)
      OldCell(k) == CHOOSE c \in clive : Rank(craw, c) = k
      S(p) == Rank(praw, p)
      C(c) == Rank(craw, c)
  IN [M |-> [M EXCEPT
        !.root = S(M.root),
        !.tr.version = IF M.tr.depth = 0 /\ U.pc \notin {"cas", "fin"}
                       THEN 0 ELSE M.tr.version,
        !.tr.entry = IF M.tr.depth = 0 /\ U.out = "none"
                        /\ U.pc \notin {"cas", "fin", "unlink"}
                     THEN <<>> ELSE M.tr.entry,
        !.objmap = [x \in Xids |-> S(M.objmap[x])],
        !.new_objmap = [x \in Xids |-> S(M.new_objmap[x])],
        !.held = {S(p) : p \in M.held},
        !.tr.objs = [i \in DOMAIN M.tr.objs |->
                       [xid |-> M.tr.objs[i].xid, p |-> S(M.tr.objs[i].p),
                        prev |-> C(M.tr.objs[i].prev)]],
        !.prox = [k \in Slots |->
                    IF k <= np
                    THEN [M.prox[OldSlot(k)] EXCEPT
                            !.sub = C(@),
                            !.version = IF M.prox[OldSlot(k)].att THEN @
                                        ELSE 0]
                    ELSE FreeProx],
        !.heap = [k \in Cells |-> IF k <= nc THEN M.heap[OldCell(k)]
                                  ELSE {}]],
      U |-> [U EXCEPT !.p = S(U.p), !.prev = C(U.prev)]]

FreeSlots(M, U) == Slots \ ProxRoots(M, U)
FreeCells(M, U) == Cells \ CellRoots(M, U)

\* the value seen through proxy p without rebasing it
ValueOf(M, p) == M.heap[M.prox[p].sub]

\* Manager.link, for a DObject that __setstate__ just filled in slot p:
\* draw an id when the pickled xid is 0, stamp the Manager's version
Manager_link(M, p) ==
  LET xid == IF M.prox[p].xid = 0 THEN M.xidc ELSE M.prox[p].xid IN
  [M EXCEPT !.xidc = IF M.prox[p].xid = 0 THEN M.xidc + 1 ELSE M.xidc,
            !.prox[p].xid = xid,
            !.prox[p].version = M.version,
            !.new_objmap[xid] = p]

\* Manager._load: a fresh new_objmap, then unpickle (DObject.__setstate__
\* links the new object).  The result carries the loaded root's slot.
Manager_load(M0, U, payload) ==
  LET M == [M0 EXCEPT !.new_objmap = EmptyMap]
      p == Min(FreeSlots(M, U))
      c == Min(FreeCells(M, U))
      M1 == [M EXCEPT !.prox[p] = [xid |-> payload.xid, sub |-> c,
                                   version |-> 0, att |-> TRUE],
                      !.heap[c] = payload.val]
  IN [M |-> Manager_link(M1, p), root |-> p]

Manager_update_unguarded(M, version, root) ==
  [M EXCEPT !.version = version, !.root = root, !.objmap = M.new_objmap]

\* Manager._update
Manager_update(M, version, root) ==
  IF version > M.version
  THEN [M EXCEPT !.version = version, !.root = root,
                 !.objmap = M.new_objmap]
  ELSE M

\* Manager._refresh_locked, with r what backend.read() returned
Manager_refresh_locked(M, U, r) ==
  IF r.version = NoneVer THEN M
  ELSE IF M.version >= r.version THEN M
  ELSE LET M1 == [M EXCEPT !.version = r.version, !.needs_update = FALSE]
           l == Manager_load(M1, U, r.payload[1])
       IN [l.M EXCEPT !.root = l.root, !.objmap = l.M.new_objmap]

\* Manager.dump of a value the caller built (make_pickable wraps it in a
\* DObject with xid 0 bound to this Manager) or of the DObject in slot p
\* (__getstate__: its subobj, xid and dmgr as they are)
Manager_dump(M, p, val) ==
  IF p = 0 THEN [xid |-> 0, val |-> val, att |-> TRUE]
  ELSE [xid |-> M.prox[p].xid, val |-> ValueOf(M, p), att |-> M.prox[p].att]

\* Manager.load of what dump returned: DObject.__setstate__ restores the
\* three fields and calls self.dmgr.link(self), an AttributeError when the
\* pickled dmgr was None; link raises ValueError('duplicate ID') when
\* new_objmap already binds the xid (to another object: this one is new).
\* load does not start a fresh new_objmap, and new_objmap is the very dict
\* objmap when the last _load was adopted (the two are then equal).
Manager_load_bytes(M, U, d) ==
  IF ~d.att THEN [M |-> M, err |-> "AttributeError", obj |-> 0]
  ELSE IF d.xid # 0 /\ M.new_objmap[d.xid] # 0
  THEN [M |-> M, err |-> "ValueError", obj |-> 0]
  ELSE LET p == Min(FreeSlots(M, U))
           c == Min(FreeCells(M, U))
           M1 == [M EXCEPT !.prox[p] = [xid |-> d.xid, sub |-> c,
                                        version |-> 0, att |-> TRUE],
                           !.heap[c] = d.val]
           M2 == Manager_link(M1, p)
       IN [M |-> IF M.objmap = M.new_objmap
                 THEN [M2 EXCEPT !.objmap = M2.new_objmap] ELSE M2,
           err |-> "none", obj |-> p]

\* what Manager._refresh_locked(dfl) returns, with r what backend.read()
\* returned: dfl, the cached root_obj (which may be NIL), or the loaded root
Manager_refresh_returns(M, r) ==
  IF r.version = NoneVer THEN "dfl"
  ELSE IF M.version >= r.version
       THEN (IF M.root = 0 THEN "NIL" ELSE "root")
       ELSE "root"

\* Manager.is_linked, for the DObject in slot p
Manager_is_linked(M, p) ==
  M.prox[p].xid # 0 /\ M.objmap[M.prox[p].xid] # 0

\* Manager._payload of the root object (None when the root is NIL: pickling
\* fails)
Manager_payload(M) ==
  IF M.root = 0 THEN <<>>
  ELSE <<[xid |-> M.prox[M.root].xid, val |-> ValueOf(M, M.root)]>>


\* ------------------------------------------------------- Transaction
\* Manager.transaction: bind the shared Transaction to cur_trans
Manager_transaction(M) == [M EXCEPT !.cur_trans = TRUE]

Transaction_enter_resnapshot(M) ==
  [M EXCEPT !.tr.version = M.version, !.tr.depth = M.tr.depth + 1]

\* Transaction.__enter__
Transaction_enter(M) ==
  [M EXCEPT !.tr.version = IF M.tr.depth = 0 THEN M.version ELSE M.tr.version,
            !.tr.depth = M.tr.depth + 1]

\* Transaction.is_traced: objs is a dict keyed by xid, kept in insertion order
Transaction_is_traced(M, xid) ==
  \E i \in DOMAIN M.tr.objs : M.tr.objs[i].xid = xid

\* Transaction.trace_obj: objs[obj.xid] = (obj, prev)
Transaction_trace_obj(M, p, prev) ==
  LET xid == M.prox[p].xid
      e == [xid |-> xid, p |-> p, prev |-> prev]
  IN IF Transaction_is_traced(M, xid)
     THEN [M EXCEPT !.tr.objs = [i \in DOMAIN M.tr.objs |->
                        IF M.tr.objs[i].xid = xid THEN e ELSE M.tr.objs[i]]]
     ELSE [M EXCEPT !.tr.objs = Append(M.tr.objs, e)]

\* Manager.is_dirty
Manager_is_dirty(M, p) ==
  M.cur_trans /\ Transaction_is_traced(M, M.prox[p].xid)

\* Transaction.rollback, from the i-th traced entry on.  objmap[xid] raises
\* KeyError (err) when the object map has no such entry.
RECURSIVE Transaction_rollback(_, _)
Transaction_rollback(M, i) ==
  IF i > Len(M.tr.objs) THEN [M |-> M, err |-> FALSE]
  ELSE LET e == M.tr.objs[i]
           q == M.objmap[M.prox[e.p].xid]
       IN IF q = 0 THEN [M |-> M, err |-> TRUE]
          ELSE Transaction_rollback(
                 [M EXCEPT !.prox = [M.prox EXCEPT ![q].sub = e.prev,
                                                   ![e.p].sub = e.prev]],
                 i + 1)

\* Transaction.commit, the loop "outmap[xid].subobj = val[0].subobj"
RECURSIVE Transaction_commit_copy(_, _)
Transaction_commit_copy(M, i) ==
  IF i > Len(M.tr.objs) THEN [M |-> M, err |-> FALSE]
  ELSE LET e == M.tr.objs[i]
           q == M.objmap[e.xid]
       IN IF q = 0 THEN [M |-> M, err |-> TRUE]
          ELSE Transaction_commit_copy(
                 [M EXCEPT !.prox[q].sub = M.prox[e.p].sub], i + 1)

Transaction_commit_try_uncaught(ok, raised) ==
  [ret |-> ok /\ ~raised, exc |-> raised]

\* Transaction.commit, "try: ret = dmgr.try_write(...) except Exception:
\* ret = False": what commit goes on with when try_write returned ok or
\* raised; exc is an exception that leaves commit
Transaction_commit_try(ok, raised) ==
  [ret |-> ok /\ ~raised, exc |-> FALSE]

\* Transaction.unlink up to the read of needs_update: objs.clear(), then
\* Manager.unlink_trans refreshes when a refresh was deferred
Transaction_unlink(M, U, b) ==
  LET M1 == [M EXCEPT !.tr.objs = <<>>] IN
  IF M1.needs_update THEN Manager_refresh_locked(M1, U, Backend_read(b))
  ELSE M1

\* Manager.unlink_trans, its last statement
Manager_unlink_trans(M) == [M EXCEPT !.cur_trans = FALSE]

\* Transaction.__exit__ up to its first access to the backend or to
\* cur_trans.  exc: the with-block raised.  The thread goes on at "cas"
\* (commit's try_write), at "unlink" (cur_trans = None is left), or is done.
Transaction_exit(M0, exc, b) ==
  LET M == [M0 EXCEPT !.tr.depth = M0.tr.depth - 1]
      U0 == UIdle("none")
  IN
  IF M.tr.depth # 0
  THEN [M |-> M, U |-> UIdle(IF exc THEN "UserExc" ELSE "none")]
  ELSE IF exc
  THEN LET r == Transaction_rollback(M, 1) IN
       IF r.err THEN [M |-> r.M, U |-> UIdle("KeyError")]
       ELSE [M |-> Transaction_unlink(r.M, U0, b),
             U |-> [U0 EXCEPT !.pc = "unlink", !.exc = TRUE]]
  ELSE IF M.tr.objs = <<>>
  THEN [M |-> Transaction_unlink(M, U0, b),
        U |-> [U0 EXCEPT !.pc = "unlink", !.ret = TRUE]]
  ELSE LET c == Transaction_commit_copy(M, 1) IN
       IF c.err THEN [M |-> c.M, U |-> UIdle("KeyError")]
       ELSE [M |-> c.M, U |-> [U0 EXCEPT !.pc = "cas"]]

\* ------------------------------------------------------- proxies (dtypes)
\* _ensure_latest_subobj: rebase proxy p before a non-mutating method
ensure_latest_subobj(M, p) ==
  LET P == M.prox[p] IN
  IF ~P.att \/ P.version = M.version THEN M
  ELSE IF M.objmap[P.xid] = 0 THEN [M EXCEPT !.prox[p].att = FALSE]
  ELSE [M EXCEPT !.prox[p].sub = M.prox[M.objmap[P.xid]].sub,
                 !.prox[p].version = M.version]

\* _call_with_latest up to "with dmgr.transaction()": the mutating method
\* adds tag.  enter: the transaction block follows (lines 75 and 98).
call_with_latest(M, U, p, tag) ==
  LET P == M.prox[p]
      c == Min(FreeCells(M, U))
      inplace(MM) == [MM EXCEPT !.heap[P.sub] = MM.heap[P.sub] \cup {tag}]
      detached == [M |-> inplace([M EXCEPT !.prox[p].att = FALSE]),
                   trace |-> FALSE, prev |-> 0, enter |-> FALSE]
  IN
  IF ~P.att
  THEN [M |-> inplace(M), trace |-> FALSE, prev |-> 0, enter |-> FALSE]
  ELSE IF M.objmap[P.xid] = 0 THEN detached
  ELSE IF P.version = M.version
  THEN IF ~Manager_is_dirty(M, p)
       THEN [M |-> [M EXCEPT !.prox[p].sub = c,
                             !.heap[c] = M.heap[P.sub] \cup {tag}],
             trace |-> TRUE, prev |-> P.sub, enter |-> TRUE]
       ELSE [M |-> inplace(M), trace |-> FALSE, prev |-> 0, enter |-> FALSE]
  ELSE LET subobj == M.prox[M.objmap[P.xid]].sub IN
       [M |-> [M EXCEPT !.prox[p].version = M.version,
                        !.prox[p].sub = c,
                        !.heap[c] = M.heap[subobj] \cup {tag}],
        trace |-> TRUE, prev |-> subobj, enter |-> TRUE]


\* ------------------------------------------------------- the user thread
\* one step of Manager m's user thread: the process forgets what it no
\* longer refers to
UserStep(m, M, U) ==
  LET g == GC(M, U) IN
  /\ mgr' = [mgr EXCEPT ![m] = g.M]
  /\ usr' = [usr EXCEPT ![m] = g.U]

Handles(m) == (mgr[m].held \cup {mgr[m].root}) \ {0}

\* Manager.refresh up to the end of _refresh_locked; __exit__ follows.
\* Manager.transaction takes the lock to set cur_trans when it is not set.
RefreshEnter(m) ==
  LET M == Transaction_enter(Manager_transaction(mgr[m]))
      U == [UIdle("none") EXCEPT !.pc = "exit"]
  IN /\ mgr[m].cur_trans \/ mgr[m].lock = "free"
     /\ UserStep(m, Manager_refresh_locked(M, U, Backend_read(be)), U)
     /\ UNCHANGED <<be, bcall, wat, call, now, hnd>>

\* mgr.refresh()
Refresh(m) ==
  /\ usr[m].pc = "idle"
  /\ mgr[m].tr.depth < MaxDepth
  /\ RefreshEnter(m)

\* x = mgr.read(): the cached root, which the caller keeps; a refresh when
\* nothing is cached
Read(m) ==
  /\ usr[m].pc = "idle"
  /\ IF mgr[m].root # 0
     THEN /\ Cardinality(mgr[m].held \cup {mgr[m].root}) <= MaxHeld
          /\ UserStep(m, [mgr[m] EXCEPT !.held = @ \cup {mgr[m].root}],
                      UIdle("none"))
          /\ UNCHANGED <<be, bcall, wat, call, now, hnd>>
     ELSE /\ mgr[m].tr.depth < MaxDepth
          /\ RefreshEnter(m)

\* the caller drops a proxy it kept
Drop(m, p) ==
  /\ usr[m].pc = "idle"
  /\ p \in mgr[m].held
  /\ UserStep(m, [mgr[m] EXCEPT !.held = @ \ {p}], UIdle("none"))
  /\ UNCHANGED <<be, bcall, wat, call, now, hnd>>

\* the with-block of Manager.refresh or Manager.snapshot ends
OpExit(m) ==
  /\ usr[m].pc = "exit"
  /\ LET x == Transaction_exit(mgr[m], FALSE, be) IN
       UserStep(m, x.M, [x.U EXCEPT !.res = usr[m].res])
  /\ UNCHANGED <<be, bcall, wat, call, now, hnd>>

\* mgr.write(val), up to backend.write; the backend stays within version cap
Write(m, val, cap) ==
  /\ usr[m].pc = "idle"
  /\ be.version < cap
  /\ LET payload == [xid |-> 0, val |-> val]
         r == Backend_write(be, m, payload)
     IN /\ be' = r.be
        /\ UserStep(m, mgr[m], [UIdle("none") EXCEPT !.pc = "w2",
                                  !.wver = r.version, !.payload = payload])
  /\ UNCHANGED <<bcall, wat, call, now, hnd>>

\* mgr.write, after backend.write: _load, then _update under the lock
WriteFin(m) ==
  /\ usr[m].pc = "w2"
  /\ LET l == Manager_load(mgr[m], usr[m], usr[m].payload) IN
       UserStep(m, Manager_update(l.M, usr[m].wver, l.root), UIdle("none"))
  /\ UNCHANGED <<be, bcall, wat, call, now, hnd>>

\* mgr.try_write(val) with the default exp_version, up to backend.try_write
TryWrite(m, val, cap) ==
  /\ usr[m].pc = "idle"
  /\ LET payload == [xid |-> 0, val |-> val]
         r == Backend_try_write(be, m, payload, mgr[m].version)
     IN /\ r.ok => be.version < cap
        /\ be' = r.be
        /\ UserStep(m, mgr[m], [UIdle("none") EXCEPT !.pc = "tw2",
                                  !.ret = r.ok, !.wver = r.version,
                                  !.exp = mgr[m].version,
                                  !.payload = payload])
  /\ UNCHANGED <<bcall, wat, call, now, hnd>>

\* mgr.try_write, after backend.try_write
TryWriteFin(m) ==
  /\ usr[m].pc = "tw2"
  /\ IF usr[m].ret
     THEN LET l == Manager_load(mgr[m], usr[m], usr[m].payload) IN
            UserStep(m, Manager_update(l.M, usr[m].wver, l.root),
                     UIdle("none"))
     ELSE UserStep(m, mgr[m], UIdle("False"))
  /\ UNCHANGED <<be, bcall, wat, call, now, hnd>>

\* the value read through proxy p (a non-mutating method rebases it first)
ReadThrough(M, p) == ValueOf(ensure_latest_subobj(M, p), p)

\* the root's value as the caller reads it, <<>> when the root is NIL
RootValue(M) == IF M.root = 0 THEN <<>> ELSE <<ReadThrough(M, M.root)>>

\* with mgr.transaction(): the block is entered
TxBegin(m) ==
  /\ usr[m].pc = "idle"
  /\ mgr[m].tr.depth < MaxDepth
  /\ LET M == Transaction_enter(Manager_transaction(mgr[m])) IN
       UserStep(m, [M EXCEPT !.tr.entry =
                      IF mgr[m].tr.depth = 0
                      THEN <<[version |-> M.version, val |-> RootValue(M)]>>
                      ELSE @],
                UIdle("none"))
  /\ UNCHANGED <<be, bcall, wat, call, now, hnd>>

\* the with-block ends, normally or (exc) because the caller's code raised
TxEnd(m, exc) ==
  /\ usr[m].pc = "idle"
  /\ mgr[m].tr.depth > 0
  /\ LET x == Transaction_exit(mgr[m], exc, be) IN UserStep(m, x.M, x.U)
  /\ UNCHANGED <<be, bcall, wat, call, now, hnd>>

\* Transaction.commit: Manager.try_write(root_obj, self.version) up to the
\* backend's compare-and-swap.  Pickling a NIL root raises; commit catches it.
CommitCAS(m, cap) ==
  /\ usr[m].pc = "cas"
  /\ LET M == mgr[m]
         payload == Manager_payload(M)
     IN IF payload = <<>>
        THEN /\ UserStep(m, M, [usr[m] EXCEPT !.pc = "fin", !.ret = FALSE,
                                              !.exp = M.tr.version])
             /\ be' = be
        ELSE LET r == Backend_try_write(be, m, payload[1], M.tr.version) IN
             /\ r.ok => be.version < cap
             /\ be' = r.be
             /\ UserStep(m, M, [usr[m] EXCEPT !.pc = "fin", !.ret = r.ok,
                                  !.wver = r.version, !.exp = M.tr.version,
                                  !.payload = payload[1]])
  /\ UNCHANGED <<bcall, wat, call, now, hnd>>

\* after the compare-and-swap: Manager.try_write adopts the written root, or
\* commit rolls back; then Transaction.unlink up to the deferred refresh
CommitFin(m) ==
  /\ usr[m].pc = "fin"
  /\ LET U0 == UIdle("none")
         t == Transaction_commit_try(usr[m].ret, usr[m].berr)
         U == [U0 EXCEPT !.pc = "unlink", !.ret = t.ret,
                         !.berr = usr[m].berr]
     IN IF t.exc
        THEN UserStep(m, mgr[m], [UIdle("BackendError") EXCEPT !.berr = TRUE])
        ELSE IF t.ret
        THEN LET l == Manager_load(mgr[m], U0, usr[m].payload)
                 M1 == Manager_update(l.M, usr[m].wver, l.root)
             IN UserStep(m, Transaction_unlink(M1, U0, be), U)
        ELSE LET r == Transaction_rollback(mgr[m], 1) IN
             IF r.err THEN UserStep(m, r.M, UIdle("KeyError"))
             ELSE UserStep(m, Transaction_unlink(r.M, U0, be), U)
  /\ UNCHANGED <<be, bcall, wat, call, now, hnd>>

\* Manager.unlink_trans ends (cur_trans = None) and __exit__ returns, or
\* raises TransactionError when the commit failed
Unlink(m) ==
  /\ usr[m].pc = "unlink"
  /\ UserStep(m, Manager_unlink_trans(mgr[m]),
              [UIdle(IF usr[m].exc THEN "UserExc"
                     ELSE IF usr[m].ret THEN "none" ELSE "TransactionError")
                 EXCEPT !.res = usr[m].res, !.berr = usr[m].berr])
  /\ UNCHANGED <<be, bcall, wat, call, now, hnd>>

\* a mutating method on proxy p (it adds tag), up to the transaction block
Mutate(m, p, tag) ==
  /\ usr[m].pc = "idle"
  /\ p \in Handles(m)
  /\ LET x == call_with_latest(mgr[m], usr[m], p, tag) IN
       IF x.enter
       THEN UserStep(m, x.M, [UIdle("none") EXCEPT !.pc = "trace", !.p = p,
                                !.trace = x.trace, !.prev = x.prev])
       ELSE UserStep(m, x.M, UIdle("none"))
  /\ UNCHANGED <<be, bcall, wat, call, now, hnd>>

\* _call_with_latest: "with dmgr.transaction() as tr: tr.trace_obj(self,
\* prev)", up to __exit__'s first access to the backend
MutateTrace(m) ==
  /\ usr[m].pc = "trace"
  /\ LET M1 == Transaction_enter(Manager_transaction(mgr[m]))
         M2 == IF usr[m].trace
               THEN Transaction_trace_obj(M1, usr[m].p, usr[m].prev)
               ELSE M1
         x == Transaction_exit(M2, FALSE, be)
     IN UserStep(m, x.M, x.U)
  /\ UNCHANGED <<be, bcall, wat, call, now, hnd>>

\* a non-mutating method on proxy p
Get(m, p) ==
  /\ usr[m].pc = "idle"
  /\ p \in Handles(m)
  /\ ensure_latest_subobj(mgr[m], p) # mgr[m]
  /\ UserStep(m, ensure_latest_subobj(mgr[m], p), UIdle("none"))
  /\ UNCHANGED <<be, bcall, wat, call, now, hnd>>

\* ------------------------------------------------------- the watcher thread
\* Manager.watcher_target, the head of its loop: self = wself() is None and
\* the thread returns when nothing refers to the Manager any more (the caller
\* dropped it and the thread's local variable self is not bound to it);
\* otherwise self is bound and target_wait starts: InprocBackend's reads
\* version = data.version, FileBackend's sleeps
WatchStart(m) ==
  /\ wat[m].pc = "start"
  /\ wat' = [wat EXCEPT ![m] =
               IF usr[m].pc = "gone" /\ ~wat[m].self
               THEN [pc |-> "exited", version |-> 0, self |-> FALSE,
                     payload |-> NoPayload]
               ELSE [pc |-> "wait",
                     version |-> IF be.kind = "inproc" THEN be.version
                                 ELSE 0,
                     self |-> TRUE, payload |-> NoPayload]]
  /\ UNCHANGED <<be, bcall, mgr, usr, call, now, hnd>>

\* InprocBackend.target_wait returns once the version moved: true when it
\* grew and another participant wrote
Inproc_target_wait(b, uid, version) ==
  version < b.version /\ b.notifier # uid

\* FileBackend.target_wait after its sleep, on handle h: the file's mtime
\* (it moves with every write, like the version) is remembered; true when
\* nothing was remembered, or the mtime grew and another participant wrote;
\* false when the file cannot be opened
File_target_wait(b, h) ==
  IF b.bvec = <<>> THEN [ret |-> FALSE, h |-> h]
  ELSE [ret |-> h.last_modified = NoneVer
                  \/ (b.version > h.last_modified
                        /\ b.notifier # h.unique_id),
        h |-> [h EXCEPT !.last_modified = b.version]]

\* target_wait returns to watcher_target
WatchWake(m) ==
  /\ wat[m].pc = "wait"
  /\ be.kind = "inproc" => wat[m].version # be.version
  /\ LET ret == IF be.kind = "inproc"
                THEN Inproc_target_wait(be, m, wat[m].version)
                ELSE File_target_wait(be, hnd[m]).ret
     IN wat' = [wat EXCEPT ![m] =
                  [pc |-> IF ret THEN "act" ELSE "start",
                   version |-> 0, self |-> TRUE, payload |-> NoPayload]]
  /\ hnd' = IF be.kind = "inproc" THEN hnd
            ELSE [hnd EXCEPT ![m] = File_target_wait(be, hnd[m]).h]
  /\ UNCHANGED <<be, bcall, mgr, usr, call, now>>

Manager_watcher_target_eager(M, U, b) ==
  Manager_refresh_locked(M, U, Backend_read(b))

\* Manager.watcher_target, under the Manager's lock
Manager_watcher_target(M, U, b) ==
  IF M.cur_trans THEN [M EXCEPT !.needs_update = TRUE]
  ELSE Manager_refresh_locked(M, U, Backend_read(b))

WatchAct(m) ==
  /\ wat[m].pc = "act"
  /\ UserStep(m, Manager_watcher_target(mgr[m], usr[m], be), usr[m])
  /\ wat' = [wat EXCEPT ![m] = [pc |-> "start", version |-> 0,
                                  self |-> TRUE, payload |-> NoPayload]]
  /\ UNCHANGED <<be, bcall, call, now, hnd>>

\* ------------------------------------------------------- the system
\* the Managers of S were constructed on copies of one empty InprocBackend;
\* Manager.__init__ gave each copy its Manager's id
InitWith(S) ==
  /\ be = EmptyBackend("inproc")
  /\ bcall = NoCall
  /\ mgr = [m \in S |-> [NewManager EXCEPT !.backend = m]]
  /\ usr = [m \in S |-> UIdle("none")]
  /\ wat = [m \in S |-> NewWatcher]
  /\ call = NoFrame
  /\ now = 0
  /\ hnd = [m \in S |-> [NewHandle EXCEPT !.unique_id = m]]

Init == InitWith({1})

\* another participant's committed write, seen from the backend: Manager.write
\* stores a root pickled with xid 0, a commit one with the writer's xid
ForeignWrite(u, payload, cap) ==
  /\ be.version < cap
  /\ be' = Backend_write(be, u, payload).be
  /\ UNCHANGED <<bcall, mgr, usr, wat, call, now, hnd>>

\* the calls the user thread of Manager m makes, and their steps
UserNext(m, cap) ==
  \/ Refresh(m)
  \/ Read(m)
  \/ \E p \in Slots : Drop(m, p)
  \/ OpExit(m)
  \/ \E val \in Values : Write(m, val, cap)
  \/ WriteFin(m)
  \/ TxBegin(m)
  \/ \E exc \in BOOLEAN : TxEnd(m, exc)
  \/ CommitCAS(m, cap)
  \/ CommitFin(m)
  \/ Unlink(m)
  \/ \E p \in Slots, tag \in Tags : Mutate(m, p, tag)
  \/ MutateTrace(m)
  \/ \E p \in Slots : Get(m, p)

WatchNext(m) == WatchStart(m) \/ WatchWake(m) \/ WatchAct(m)

\* Manager 1 with its two threads; participant 2 is seen through its writes
Next ==
  \/ UserNext(1, MaxTxVersion)
  \/ WatchNext(1)
  \/ \E payload \in Payloads : ForeignWrite(2, payload, MaxTxVersion)

Spec == Init /\ [][Next]_vars

\* The same Manager when the caller only uses the root proxy and lets every
\* mutating method commit by itself
AutoNext ==
  \/ Refresh(1)
  \/ OpExit(1)
  \/ \E val \in Values : Write(1, val, MaxVersion)
  \/ WriteFin(1)
  \/ \E tag \in Tags : Mutate(1, mgr[1].root, tag)
  \/ MutateTrace(1)
  \/ CommitCAS(1, MaxVersion)
  \/ CommitFin(1)
  \/ Unlink(1)
  \/ WatchNext(1)
  \/ \E payload \in Payloads : ForeignWrite(2, payload, MaxVersion)

SpecAuto == Init /\ [][AutoNext]_vars

\* mgr.refresh(dfl) whose result the caller looks at, up to the end of
\* _refresh_locked; __exit__ follows
RefreshDfl(m) ==
  /\ usr[m].pc = "idle"
  /\ mgr[m].tr.depth < MaxDepth
  /\ LET M == Transaction_enter(Manager_transaction(mgr[m]))
         r == Backend_read(be)
         U == [UIdle("none") EXCEPT !.pc = "exit",
                                    !.res = Manager_refresh_returns(M, r)]
     IN UserStep(m, Manager_refresh_locked(M, U, r), U)
  /\ UNCHANGED <<be, bcall, wat, call, now, hnd>>

\* mgr.read(dfl) when nothing is cached: return self.refresh(dfl)
ReadDfl(m) ==
  /\ mgr[m].root = 0
  /\ RefreshDfl(m)

\* One Manager on an InprocBackend or on a FileBackend whose file does not
\* exist yet, before its watcher is scheduled: the caller keeps a proxy,
\* replaces the root, refreshes and looks at what refresh and read return
ReadInit ==
  /\ be \in {EmptyBackend("inproc"), EmptyBackend("file")}
  /\ bcall = NoCall
  /\ mgr = [m \in {1} |-> [NewManager EXCEPT !.backend = m]]
  /\ usr = [m \in {1} |-> UIdle("none")]
  /\ wat = [m \in {1} |-> NewWatcher]
  /\ call = NoFrame
  /\ now = 0
  /\ hnd = [m \in {1} |-> [NewHandle EXCEPT !.unique_id = m]]

ReadNext ==
  \/ RefreshDfl(1)
  \/ ReadDfl(1)
  \/ Read(1)
  \/ \E p \in Slots : Drop(1, p)
  \/ OpExit(1)
  \/ Unlink(1)
  \/ \E val \in Values : Write(1, val, MaxVersion)
  \/ WriteFin(1)
  \/ \E p \in Slots : Get(1, p)
  \/ \E payload \in Payloads : ForeignWrite(2, payload, MaxVersion)

SpecRead == ReadInit /\ [][ReadNext]_vars

\* data = mgr.dump(x), for a value the caller builds (p = 0) or a proxy it
\* has; the caller keeps x to compare
Dump(m, p, val) ==
  /\ usr[m].pc = "idle"
  /\ p \in Handles(m) \cup {0}
  /\ UserStep(m, mgr[m],
              [UIdle("none") EXCEPT !.pc = "dumped", !.p = p,
                                    !.payload = Manager_dump(mgr[m], p, val)])
  /\ UNCHANGED <<be, bcall, wat, call, now, hnd>>

\* mgr.load(data) == x; the bounds leave room (a slot, a cell, an id) for the
\* loaded object and for the roots of the versions up to cap that the
\* Manager has not loaded yet
Load(m, cap) ==
  /\ usr[m].pc = "dumped"
  /\ usr[m].payload.xid = 0 => mgr[m].xidc + (cap - mgr[m].version) <= MaxXid
  /\ Cardinality(FreeSlots(mgr[m], usr[m])) >= 2
  /\ Cardinality(FreeCells(mgr[m], usr[m])) >= 2
  /\ LET l == Manager_load_bytes(mgr[m], usr[m], usr[m].payload)
         x == IF usr[m].p = 0 THEN usr[m].payload.val
              ELSE ReadThrough(l.M, usr[m].p)
     IN UserStep(m, l.M,
          [UIdle(l.err) EXCEPT
             !.res = IF l.err # "none" THEN "raised"
                     ELSE IF ReadThrough(l.M, l.obj) = x THEN "equal"
                     ELSE "differs"])
  /\ UNCHANGED <<be, bcall, wat, call, now, hnd>>

\* One Manager whose caller writes roots, keeps proxies and round-trips
\* values and proxies through dump and load
PickleNext ==
  \/ \E val \in Values : Write(1, val, MaxTxVersion)
  \/ WriteFin(1)
  \/ Read(1)
  \/ OpExit(1)
  \/ Unlink(1)
  \/ \E p \in Slots : Drop(1, p)
  \/ \E p \in Slots : Get(1, p)
  \/ \E p \in Slots \cup {0}, val \in Values : Dump(1, p, val)
  \/ Load(1, MaxTxVersion)

SpecPickle == Init /\ [][PickleNext]_vars

\* One Manager whose caller writes roots, refreshes after another
\* participant's writes (their blobs carry the ids that participant
\* assigned), keeps proxies, and loads what it dumped
IdsNext ==
  \/ \E val \in Values : Write(1, val, MaxTxVersion)
  \/ WriteFin(1)
  \/ Refresh(1)
  \/ Read(1)
  \/ OpExit(1)
  \/ Unlink(1)
  \/ \E p \in Slots : Drop(1, p)
  \/ \E p \in Slots : Get(1, p)
  \/ \E p \in Slots \cup {0}, val \in Values : Dump(1, p, val)
  \/ Load(1, MaxTxVersion)
  \/ \E payload \in Payloads : ForeignWrite(2, payload, MaxTxVersion)

SpecIds == Init /\ [][IdsNext]_vars

\* One Manager whose caller refreshes, writes, calls try_write and lets
\* mutating methods on the root commit, with its watcher and another
\* participant's writes
MonoNext ==
  \/ RefreshDfl(1)
  \/ OpExit(1)
  \/ Unlink(1)
  \/ \E val \in Values : Write(1, val, MaxVersion)
  \/ WriteFin(1)
  \/ \E val \in Values : TryWrite(1, val, MaxVersion)
  \/ TryWriteFin(1)
  \/ \E tag \in Tags : Mutate(1, mgr[1].root, tag)
  \/ MutateTrace(1)
  \/ CommitCAS(1, MaxVersion)
  \/ CommitFin(1)
  \/ WatchNext(1)
  \/ \E payload \in Payloads : ForeignWrite(2, payload, MaxVersion)

SpecMono == Init /\ [][MonoNext]_vars

\* ------------------------------------------------- a failing backend
\* Transaction.commit when the backend raises inside try_write: before it
\* touched the stored blob (the lock file or the temporary file cannot be
\* had), or (after; FileBackend only) when try_write's with-block is left
\* after the rename, where NamedTemporaryFile's __exit__ unlinks a name
\* that no longer exists.  Manager.try_write is left by the exception, so
\* nothing is loaded or adopted.
CommitCASRaise(m, after, cap) ==
  /\ usr[m].pc = "cas"
  /\ Manager_payload(mgr[m]) # <<>>
  /\ LET payload == Manager_payload(mgr[m])[1]
         r == Backend_try_write(be, m, payload, mgr[m].tr.version)
     IN /\ after => (be.kind = "file" /\ r.ok /\ be.version < cap)
        /\ be' = IF after THEN r.be ELSE be
        /\ UserStep(m, mgr[m], [usr[m] EXCEPT !.pc = "fin", !.ret = FALSE,
                                  !.berr = TRUE, !.exp = mgr[m].tr.version,
                                  !.payload = payload])
  /\ UNCHANGED <<bcall, wat, call, now, hnd>>

\* One Manager on an InprocBackend or a FileBackend that may raise inside a
\* commit's try_write: the caller writes roots, opens transactions and
\* mutates the root; its watcher runs; another participant writes
FailNext ==
  \/ \E val \in Values : Write(1, val, MaxTxVersion)
  \/ WriteFin(1)
  \/ TxBegin(1)
  \/ \E exc \in BOOLEAN : TxEnd(1, exc)
  \/ \E tag \in Tags : Mutate(1, mgr[1].root, tag)
  \/ MutateTrace(1)
  \/ CommitCAS(1, MaxTxVersion)
  \/ \E after \in BOOLEAN : CommitCASRaise(1, after, MaxTxVersion)
  \/ CommitFin(1)
  \/ Unlink(1)
  \/ WatchNext(1)
  \/ \E payload \in Payloads : ForeignWrite(2, payload, MaxTxVersion)

SpecFail == ReadInit /\ [][FailNext]_vars

\* ------------------------------------------------- nested blocks
\* the caller's with-blocks nest at most MaxNest deep
MaxNest == 2

\* with mgr.transaction(): entered inside an open block
TxNest(m) ==
  /\ usr[m].pc = "idle"
  /\ mgr[m].tr.depth > 0
  /\ mgr[m].tr.depth < MaxNest
  /\ UserStep(m, Transaction_enter(Manager_transaction(mgr[m])),
              UIdle("none"))
  /\ UNCHANGED <<be, bcall, wat, call, now, hnd>>

\* mgr.refresh() called inside an open block
RefreshNest(m) ==
  /\ usr[m].pc = "idle"
  /\ mgr[m].tr.depth > 0
  /\ mgr[m].tr.depth < MaxNest
  /\ RefreshEnter(m)

\* One Manager whose caller nests transaction blocks, refreshes and writes
\* inside them, and mutates the root; another participant writes
NestNext ==
  \/ TxBegin(1)
  \/ TxNest(1)
  \/ RefreshNest(1)
  \/ OpExit(1)
  \/ \E exc \in BOOLEAN : TxEnd(1, exc)
  \/ \E val \in Values : Write(1, val, MaxTxVersion)
  \/ WriteFin(1)
  \/ \E tag \in Tags : Mutate(1, mgr[1].root, tag)
  \/ MutateTrace(1)
  \/ CommitCAS(1, MaxTxVersion)
  \/ CommitFin(1)
  \/ Unlink(1)
  \/ \E payload \in Payloads : ForeignWrite(2, payload, MaxTxVersion)

SpecNest == Init /\ [][NestNext]_vars

\* ------------------------------------------------- statement by statement
\* Manager.write after backend.write, and the watcher's refresh, one
\* statement at a time.  mgr[m].lock is the thread that holds Manager.lock.
\* Manager._load, its first statement: self.new_objmap = {}
WriteLoadBegin(m) ==
  /\ usr[m].pc = "w2"
  /\ UserStep(m, [mgr[m] EXCEPT !.new_objmap = EmptyMap],
              [usr[m] EXCEPT !.pc = "w3"])
  /\ UNCHANGED <<be, bcall, wat, call, now, hnd>>

\* Manager._load, its second statement: the unpickler, whose __setstate__
\* links the root it builds into whatever new_objmap is by now
WriteLoadEnd(m) ==
  /\ usr[m].pc = "w3"
  /\ LET d == [xid |-> usr[m].payload.xid, val |-> usr[m].payload.val,
               att |-> TRUE]
         l == Manager_load_bytes(mgr[m], usr[m], d)
     IN IF l.err # "none" THEN UserStep(m, l.M, UIdle(l.err))
        ELSE UserStep(m, l.M, [usr[m] EXCEPT !.pc = "w4", !.p = l.obj])
  /\ UNCHANGED <<be, bcall, wat, call, now, hnd>>

\* with self.lock: self._update(version, root)
WriteUpdate(m) ==
  /\ usr[m].pc = "w4"
  /\ mgr[m].lock = "free"
  /\ UserStep(m, Manager_update(mgr[m], usr[m].wver, usr[m].p),
              UIdle("none"))
  /\ UNCHANGED <<be, bcall, wat, call, now, hnd>>

\* Manager.watcher_target after target_wait returned true: with self.lock,
\* then needs_update = True, or _refresh_locked up to the first statement of
\* _load (the lock is released at once when there is nothing to load)
WatchEnter(m) ==
  /\ wat[m].pc = "act"
  /\ mgr[m].lock = "free"
  /\ LET M == mgr[m]
         r == Backend_read(be)
         back == [pc |-> "start", version |-> 0, self |-> TRUE,
                  payload |-> NoPayload]
     IN IF M.cur_trans
        THEN /\ UserStep(m, [M EXCEPT !.needs_update = TRUE], usr[m])
             /\ wat' = [wat EXCEPT ![m] = back]
        ELSE IF r.version = NoneVer \/ M.version >= r.version
        THEN /\ UserStep(m, M, usr[m])
             /\ wat' = [wat EXCEPT ![m] = back]
        ELSE /\ UserStep(m, [M EXCEPT !.version = r.version,
                                      !.needs_update = FALSE,
                                      !.new_objmap = EmptyMap,
                                      !.lock = "wat"], usr[m])
             /\ wat' = [wat EXCEPT ![m] = [back EXCEPT
                                             !.pc = "loading",
                                             !.payload = r.payload[1]]]
  /\ UNCHANGED <<be, bcall, call, now, hnd>>

\* the rest of _refresh_locked: the unpickler, self.root_obj = its result,
\* self.objmap = self.new_objmap; the lock is released.  An exception out of
\* load ends the thread.
WatchLeave(m) ==
  /\ wat[m].pc = "loading"
  /\ LET d == [xid |-> wat[m].payload.xid, val |-> wat[m].payload.val,
               att |-> TRUE]
         l == Manager_load_bytes(mgr[m], usr[m], d)
     IN IF l.err # "none"
        THEN /\ UserStep(m, [l.M EXCEPT !.lock = "free"], usr[m])
             /\ wat' = [wat EXCEPT ![m] =
                          [pc |-> "exited", version |-> 0, self |-> FALSE,
                           payload |-> NoPayload]]
        ELSE /\ UserStep(m, [l.M EXCEPT !.root = l.obj,
                                        !.objmap = l.M.new_objmap,
                                        !.lock = "free"], usr[m])
             /\ wat' = [wat EXCEPT ![m] =
                          [pc |-> "start", version |-> 0, self |-> TRUE,
                           payload |-> NoPayload]]
  /\ UNCHANGED <<be, bcall, call, now, hnd>>

\* One Manager whose caller refreshes, keeps proxies and reads through them
\* while its watcher refreshes, statement by statement, after another
\* participant's writes
FreshNext ==
  \/ Refresh(1)
  \/ Read(1)
  \/ OpExit(1)
  \/ Unlink(1)
  \/ \E p \in Slots : Drop(1, p)
  \/ \E p \in Slots : Get(1, p)
  \/ WatchStart(1)
  \/ WatchWake(1)
  \/ WatchEnter(1)
  \/ WatchLeave(1)
  \/ \E payload \in Payloads : ForeignWrite(2, payload, MaxVersion)

SpecFresh == Init /\ [][FreshNext]_vars

\* One Manager whose caller writes while its watcher refreshes after
\* another participant's writes
LockNext ==
  \/ \E val \in Values : Write(1, val, MaxTxVersion)
  \/ WriteLoadBegin(1)
  \/ WriteLoadEnd(1)
  \/ WriteUpdate(1)
  \/ WatchStart(1)
  \/ WatchWake(1)
  \/ WatchEnter(1)
  \/ WatchLeave(1)
  \/ \E payload \in Payloads : ForeignWrite(2, payload, MaxTxVersion)

SpecLock == Init /\ [][LockNext]_vars

\* the caller drops its last reference to Manager m (a proxy refers to its
\* Manager through dmgr, so none is kept) and never calls it again
DropManager(m) ==
  /\ usr[m].pc = "idle"
  /\ mgr[m].held = {}
  /\ UserStep(m, mgr[m], [UIdle("none") EXCEPT !.pc = "gone"])
  /\ UNCHANGED <<be, bcall, wat, call, now, hnd>>

\* One Manager on an InprocBackend or a FileBackend, its user thread until it
\* drops the Manager, its watcher thread, and another participant's writes.
\* Nothing makes a participant write again.
WatchInit == ReadInit

WatchLifeNext ==
  \/ Refresh(1)
  \/ OpExit(1)
  \/ Unlink(1)
  \/ \E val \in Values : Write(1, val, MaxTxVersion)
  \/ WriteFin(1)
  \/ DropManager(1)
  \/ WatchNext(1)
  \/ \E payload \in Payloads : ForeignWrite(2, payload, MaxTxVersion)

\* The watcher is a thread of its own that the scheduler keeps running: a
\* step it can take is eventually taken.  WatchAct is enabled exactly when
\* the thread is at "act" and always leaves it (the Manager's lock is only
\* held for the length of one step), so its weak fairness is that the
\* thread is infinitely often elsewhere.
WatchFair ==
  /\ WF_vars(WatchStart(1))
  /\ WF_vars(WatchWake(1))
  /\ []<>(wat[1].pc # "act")

SpecWatch == WatchInit /\ [][WatchLifeNext]_vars /\ WatchFair

\* Two Managers on copies of one backend, each with its user thread: writes,
\* refreshes, and mutating methods on the root that commit by themselves
PairInit == InitWith(Mgrs)

PairNext ==
  \E m \in Mgrs :
    \/ Refresh(m)
    \/ OpExit(m)
    \/ \E val \in Values : Write(m, val, MaxVersion)
    \/ WriteFin(m)
    \/ \E val \in Values : TryWrite(m, val, MaxVersion)
    \/ TryWriteFin(m)
    \/ \E tag \in Tags : Mutate(m, mgr[m].root, tag)
    \/ MutateTrace(m)
    \/ CommitCAS(m, MaxVersion)
    \/ CommitFin(m)
    \/ Unlink(m)

SpecPair == PairInit /\ [][PairNext]_vars

\* ------------------------------------------------- transactional (the decorator)
\* The frame of _f: retries and timeout are the decorator's arguments (NoneVer
\* is None), num_retries and deadline its locals.  For the claims it also
\* keeps the time of entry, the number of attempts that raised
\* TransactionError, the number of times fn was invoked, and the last value
\* of time() that was compared with the deadline.
\* _f is entered: num_retries = retries, deadline = time() + timeout
CallEnter(m, retries, timeout) ==
  /\ call.pc = "none"
  /\ usr[m].pc = "idle" /\ mgr[m].tr.depth = 0
  /\ call' = [NoFrame EXCEPT
                !.pc = "loop", !.retries = retries, !.timeout = timeout,
                !.num_retries = retries,
                !.deadline = IF timeout = NoneVer THEN NoneVer
                             ELSE now + timeout,
                !.start = now]
  /\ UNCHANGED <<be, bcall, mgr, usr, wat, now, hnd>>

\* "with dmgr.transaction(): return fn(...)": the block is entered (the
\* model follows a call for MaxRetries + 1 attempts)
DecEnter(m) ==
  /\ call.pc = "loop"
  /\ call.invoked <= MaxRetries
  /\ UserStep(m, Transaction_enter(Manager_transaction(mgr[m])),
              UIdle("none"))
  /\ call' = [call EXCEPT !.pc = "body", !.invoked = @ + 1]
  /\ UNCHANGED <<be, bcall, wat, now, hnd>>

\* fn returns, or raises an exception of its own (exc): __exit__ starts
FnEnd(m, exc) ==
  /\ call.pc = "body"
  /\ usr[m].pc = "idle"
  /\ LET x == Transaction_exit(mgr[m], exc, be) IN UserStep(m, x.M, x.U)
  /\ call' = [call EXCEPT !.pc = "exit"]
  /\ UNCHANGED <<be, bcall, wat, now, hnd>>

transactional_except_strict(c, t) ==
  LET n == IF c.num_retries = NoneVer THEN NoneVer ELSE c.num_retries - 1
      c1 == [c EXCEPT !.num_retries = n, !.failed = @ + 1]
  IN IF c.num_retries # NoneVer /\ n < 0
     THEN [c1 EXCEPT !.pc = "done", !.outcome = "TransactionRetryError"]
     ELSE IF c.deadline # NoneVer /\ t > c.deadline
     THEN [c1 EXCEPT !.pc = "done", !.checked = t,
                     !.outcome = "TransactionTimeoutError"]
     ELSE [c1 EXCEPT !.pc = "loop",
                     !.checked = IF c.deadline # NoneVer THEN t ELSE @]

transactional_except_eager(c, t) ==
  LET n == IF c.num_retries = NoneVer THEN NoneVer ELSE c.num_retries - 1
      c1 == [c EXCEPT !.num_retries = n, !.failed = @ + 1]
  IN IF c.num_retries # NoneVer /\ n <= 0
     THEN [c1 EXCEPT !.pc = "done", !.outcome = "TransactionRetryError"]
     ELSE IF c.deadline # NoneVer /\ t >= c.deadline
     THEN [c1 EXCEPT !.pc = "done", !.checked = t,
                     !.outcome = "TransactionTimeoutError"]
     ELSE [c1 EXCEPT !.pc = "loop",
                     !.checked = IF c.deadline # NoneVer THEN t ELSE @]

\* _f after "except TransactionError: pass", with t what time() returns
transactional_except(c, t) ==
  LET n == IF c.num_retries = NoneVer THEN NoneVer ELSE c.num_retries - 1
      c1 == [c EXCEPT !.num_retries = n, !.failed = @ + 1]
  IN IF c.num_retries # NoneVer /\ n <= 0
     THEN [c1 EXCEPT !.pc = "done", !.outcome = "TransactionRetryError"]
     ELSE IF c.deadline # NoneVer /\ t > c.deadline
     THEN [c1 EXCEPT !.pc = "done", !.checked = t,
                     !.outcome = "TransactionTimeoutError"]
     ELSE [c1 EXCEPT !.pc = "loop",
                     !.checked = IF c.deadline # NoneVer THEN t ELSE @]

\* __exit__ is over: _f returns fn's result, lets an exception other than
\* TransactionError pass, or handles TransactionError
DecResult(m) ==
  /\ call.pc = "exit"
  /\ usr[m].pc = "idle"
  /\ call' = IF usr[m].out = "none"
             THEN [call EXCEPT !.pc = "done", !.outcome = "return"]
             ELSE IF usr[m].out = "TransactionError"
             THEN transactional_except(call, now)
             ELSE [call EXCEPT !.pc = "done", !.outcome = usr[m].out]
  /\ UNCHANGED <<be, bcall, mgr, usr, wat, now, hnd>>

\* time passes
Tick ==
  /\ now < MaxNow
  /\ now' = now + 1
  /\ UNCHANGED <<be, bcall, mgr, usr, wat, call, hnd>>

\* what the caller does before it calls the wrapped function
Setup(m) ==
  /\ call.pc = "none"
  /\ \E val \in Values : Write(m, val, MaxVersion)

\* what fn does: mutating methods on the root, mgr.write
FnBody(m) ==
  /\ call.pc = "body"
  /\ \/ \E tag \in Tags : Mutate(m, mgr[m].root, tag)
     \/ \E val \in Values : Write(m, val, MaxVersion)

RetryNext ==
  \/ Setup(1)
  \/ \E r \in {NoneVer} \cup (0 .. MaxRetries),
        t \in {NoneVer} \cup (0 .. MaxTimeout) : CallEnter(1, r, t)
  \/ DecEnter(1)
  \/ FnBody(1)
  \/ \E exc \in BOOLEAN : FnEnd(1, exc)
  \/ DecResult(1)
  \/ WriteFin(1)
  \/ MutateTrace(1)
  \/ CommitCAS(1, MaxVersion)
  \/ CommitFin(1)
  \/ Unlink(1)
  \/ \E payload \in Payloads : ForeignWrite(2, payload, MaxVersion)
  \/ Tick

SpecRetry == Init /\ [][RetryNext]_vars

\* The counters the frame keeps for the claims stop at MaxRetries + 1; the
\* decorator's own locals are untouched.
FrameCap(c) ==
  [c EXCEPT !.failed = IF @ > MaxRetries THEN MaxRetries + 1 ELSE @,
            !.invoked = IF @ > MaxRetries THEN MaxRetries + 1 ELSE @]

\* "while True: ... with dmgr.transaction():" with no bound on the number of
\* attempts the model follows
DecLoop(m) ==
  /\ call.pc = "loop"
  /\ UserStep(m, Transaction_enter(Manager_transaction(mgr[m])),
              UIdle("none"))
  /\ call' = FrameCap([call EXCEPT !.pc = "body", !.invoked = @ + 1])
  /\ UNCHANGED <<be, bcall, wat, now, hnd>>

\* __exit__ is over, as DecResult, for a call that may loop for ever
DecLoopResult(m) ==
  /\ call.pc = "exit"
  /\ usr[m].pc = "idle"
  /\ call' = IF usr[m].out = "none"
             THEN [call EXCEPT !.pc = "done", !.outcome = "return"]
             ELSE IF usr[m].out = "TransactionError"
             THEN FrameCap(transactional_except(call, now))
             ELSE [call EXCEPT !.pc = "done", !.outcome = usr[m].out]
  /\ UNCHANGED <<be, bcall, mgr, usr, wat, now, hnd>>

\* One Manager on an InprocBackend or a FileBackend with its watcher thread;
\* the caller stores a root and then calls a function wrapped by
\* transactional(dmgr) (retries and timeout unset) that calls mutating
\* methods on the root and returns; another participant writes up to
\* MaxTxVersion times.
ProgressNext ==
  \/ \E val \in Values : call.pc = "none" /\ Write(1, val, MaxTxVersion)
  \/ WriteFin(1)
  \/ CallEnter(1, NoneVer, NoneVer)
  \/ DecLoop(1)
  \/ \E tag \in Tags : call.pc = "body" /\ Mutate(1, mgr[1].root, tag)
  \/ MutateTrace(1)
  \/ FnEnd(1, FALSE)
  \/ CommitCAS(1, MaxVersion)
  \/ CommitFin(1)
  \/ Unlink(1)
  \/ DecLoopResult(1)
  \/ WatchNext(1)
  \/ \E payload \in Payloads : ForeignWrite(2, payload, MaxTxVersion)

\* The thread that runs the wrapped call is scheduled as the watcher is: it
\* does not stay for ever at one statement of _f, of __exit__ or of a
\* mutating method.
CallFair ==
  /\ \A c \in {"loop", "body", "exit"} : []<>(call.pc # c)
  /\ \A p \in {"trace", "cas", "fin", "unlink"} : []<>(usr[1].pc # p)

SpecProgress ==
  ReadInit /\ [][ProgressNext]_vars /\ WatchFair /\ CallFair

\* ------------------------------------------------- backend handles and ids
MaxUid == 3
Uids == 1 .. MaxUid
HandleIds == {1, 2}

Backend_set_id_overwrite(h, unique_id) ==
  [h |-> [h EXCEPT !.unique_id = unique_id], err |-> FALSE]

\* BaseBackend.set_id on handle h; err is the ValueError
Backend_set_id(h, unique_id) ==
  IF h.unique_id # NoUid /\ unique_id # NoUid
  THEN [h |-> h, err |-> TRUE]
  ELSE [h |-> [h EXCEPT !.unique_id = unique_id], err |-> FALSE]

\* two backend handles nobody owns yet; no Manager was constructed
HandleInit ==
  /\ be = EmptyBackend("inproc")
  /\ bcall = NoCall
  /\ mgr = [m \in Uids |-> NewManager]
  /\ usr = <<>>
  /\ wat = <<>>
  /\ call = NoFrame
  /\ now = 0
  /\ hnd = [h \in HandleIds |-> NewHandle]

\* a participant installs its id on handle h itself
SetId(h, unique_id) ==
  /\ LET r == Backend_set_id(hnd[h], unique_id) IN
       /\ hnd' = [hnd EXCEPT ![h] = r.h]
       /\ bcall' = [NoCall EXCEPT !.op = "set_id", !.uid = unique_id,
                                  !.ok = ~r.err, !.h = h]
  /\ UNCHANGED <<be, mgr, usr, wat, call, now>>

\* Manager(backend) for the Manager with id m on handle h: the constructor
\* raises out of set_id, or the Manager exists and owns the handle
Construct(m, h) ==
  /\ mgr[m].backend = 0
  /\ LET r == Backend_set_id(hnd[h], m) IN
       /\ hnd' = [hnd EXCEPT ![h] = r.h]
       /\ mgr' = IF r.err THEN mgr ELSE [mgr EXCEPT ![m].backend = h]
       /\ bcall' = [NoCall EXCEPT !.op = "Manager", !.uid = m,
                                  !.ok = ~r.err, !.h = h]
  /\ UNCHANGED <<be, usr, wat, call, now>>

HandleNext ==
  \/ \E h \in HandleIds, u \in Uids : SetId(h, u)
  \/ \E m \in Uids, h \in HandleIds : Construct(m, h)

SpecHandle == HandleInit /\ [][HandleNext]_vars

\* ------------------------------------------------- the backend contract alone
BackendInit ==
  /\ be \in {EmptyBackend("inproc"), EmptyBackend("file")}
  /\ bcall = NoCall
  /\ mgr = <<>>
  /\ usr = <<>>
  /\ wat = <<>>
  /\ call = NoFrame
  /\ now = 0
  /\ hnd = <<>>

\* a participant calls write(new) on its handle
BWrite(u, new) ==
  /\ be.version < MaxVersion
  /\ LET r == Backend_write(be, u, new) IN
       /\ be' = r.be
       /\ bcall' = [op |-> "write", uid |-> u, new |-> new, expected |-> 0,
                    ok |-> TRUE, version |-> r.version, pre |-> be,
                    h |-> u]
       /\ UNCHANGED <<mgr, usr, wat, call, now, hnd>>

\* a participant calls try_write(new, expected) on its handle
BTryWrite(u, new, expected) ==
  /\ be.version < MaxVersion
  /\ LET r == Backend_try_write(be, u, new, expected) IN
       /\ be' = r.be
       /\ bcall' = [op |-> "try_write", uid |-> u, new |-> new,
                    expected |-> expected, ok |-> r.ok,
                    version |-> r.version, pre |-> be, h |-> u]
       /\ UNCHANGED <<mgr, usr, wat, call, now, hnd>>

BackendNext ==
  \/ \E u \in Mgrs, new \in Payloads : BWrite(u, new)
  \/ \E u \in Mgrs, new \in Payloads, e \in 0 .. MaxVersion :
       BTryWrite(u, new, e)

SpecBackend == BackendInit /\ [][BackendNext]_vars

C2_NoLostUpdate ==
  \A m \in DOMAIN mgr :
    (usr[m].pc = "fin" /\ usr[m].ret) =>
      \A i \in DOMAIN mgr[m].tr.objs :
        LET P == mgr[m].prox[mgr[m].tr.objs[i].p] IN
          P.att => P.version = usr[m].exp
\* what reads through Manager m's proxies depend on
View(m) ==
  <<mgr[m].version, mgr[m].root, mgr[m].objmap, mgr[m].prox, mgr[m].heap>>

\* C4: transaction isolation.  While Manager 1 has an open transaction, a
\* step of its watcher thread or a write of another participant changes
\* neither its version, its root, its object map nor any value a proxy or an
\* iterator refers to.
C4_Isolation ==
  [][(mgr[1].tr.depth > 0
       /\ (WatchNext(1)
           \/ \E payload \in Payloads : ForeignWrite(2, payload, MaxVersion)))
     => View(1)' = View(1)]_vars

\* the watcher noticed another participant's write inside a transaction and
\* deferred the refresh
C4_Witness ==
  /\ mgr[1].tr.depth > 0 /\ mgr[1].needs_update
  /\ be.version > mgr[1].version /\ be.notifier = 2
  /\ mgr[1].root # 0
\* C5: rollback exactness.  After the caller's outermost transaction ended
\* with an exception or a failed commit, and no write or refresh moved the
\* Manager to another version meanwhile, the root and every proxy of the root
\* object that the caller holds read the value the root had at entry.
C5_RollbackExact ==
  \A m \in DOMAIN mgr :
    LET M == mgr[m] IN
    (/\ usr[m].pc = "idle" /\ M.tr.depth = 0
     /\ usr[m].out \in {"UserExc", "TransactionError"}
     /\ M.tr.entry # <<>> /\ M.tr.entry[1].version = M.version)
    => /\ RootValue(M) = M.tr.entry[1].val
       /\ \A p \in M.held :
            (M.root # 0 /\ M.prox[p].att /\ M.prox[p].xid = M.prox[M.root].xid)
            => <<ReadThrough(M, p)>> = M.tr.entry[1].val
\* C6: when the caller's outermost with-block ends because the caller's code
\* raised, nothing is written to the backend, the transaction is rolled back
\* and unlinked (no traced object is left, cur_trans becomes None), and the
\* caller's own exception is the one that propagates.
C6_ExceptionExit ==
  [][\A m \in DOMAIN mgr :
       /\ (mgr[m].tr.depth = 1 /\ TxEnd(m, TRUE))
          => /\ be' = be
             /\ usr'[m].pc = "unlink" /\ usr'[m].exc
             /\ mgr'[m].tr.objs = <<>>
       /\ (usr[m].pc = "unlink" /\ usr[m].exc /\ Unlink(m))
          => /\ be' = be
             /\ usr'[m].out = "UserExc" /\ ~mgr'[m].cur_trans]_vars
\* ------------------------------------------------- claims about two Managers
\* the compare-and-swap of Manager m's commit has answered
Swapped(m) == usr[m].pc = "fin"

\* C3: CAS correctness.  When the commits of two participants' transactions,
\* opened at the same version, have both reached the backend, exactly one
\* try_write succeeded; and a successful try_write is one version bump.
C3_CasCorrect ==
  /\ \A m1, m2 \in DOMAIN mgr :
       (m1 # m2 /\ Swapped(m1) /\ Swapped(m2) /\ usr[m1].exp = usr[m2].exp)
       => (usr[m1].ret # usr[m2].ret)
  /\ \A m \in DOMAIN mgr :
       (Swapped(m) /\ usr[m].ret)
       => (usr[m].wver = usr[m].exp + 1 /\ be.version >= usr[m].wver)

\* two commits opened at the same version were both answered
C3_Witness ==
  /\ Swapped(1) /\ Swapped(2) /\ usr[1].exp = usr[2].exp
  /\ usr[1].ret /\ ~usr[2].ret /\ usr[1].exp > 0
\* C7: commit propagation.  When the blob in the backend is what another
\* participant wrote last, a refresh() outside any transaction leaves the
\* Manager at the backend's version with a root that reads that blob's value,
\* whatever the Manager had cached.
C7_CommitPropagation ==
  [][\A m \in DOMAIN mgr :
       (/\ be.bvec # <<>> /\ be.notifier # m
        /\ mgr[m].tr.depth = 0 /\ Refresh(m))
       => /\ mgr'[m].version = be.version
          /\ RootValue(mgr'[m]) = <<be.bvec[1].val>>]_vars
\* ------------------------------------------------- claims about transactional
\* the call is in progress
Running == call.pc \in {"loop", "body", "exit"}

\* C8: retry bound.  With retries = N and no timeout, TransactionRetryError is
\* raised when exactly N attempts failed to commit (one when N = 0) and not
\* before, and fn was invoked exactly that many times.
C8_RetryBound ==
  (call.retries # NoneVer /\ call.timeout = NoneVer) =>
    LET N == IF call.retries = 0 THEN 1 ELSE call.retries IN
    /\ call.outcome = "TransactionRetryError"
         => (call.failed = N /\ call.invoked = N)
    /\ (Running \/ (call.pc = "done"
                      /\ call.outcome # "TransactionRetryError"))
         => call.failed < N
    /\ call.invoked <= N

\* two attempts failed and the third was not made
C8_Witness ==
  /\ call.retries = 2 /\ call.timeout = NoneVer
  /\ call.outcome = "TransactionRetryError" /\ call.failed = 2

\* C9: a call to a function wrapped by transactional ends by returning fn's
\* result after the transaction was committed and unlinked, by
\* TransactionRetryError, by TransactionTimeoutError, or by fn's own
\* exception after the one attempt was rolled back and unlinked.
C9_Outcomes ==
  call.pc = "done" =>
    /\ call.outcome \in {"return", "TransactionRetryError",
                         "TransactionTimeoutError", "UserExc"}
    /\ call.outcome \in {"return", "UserExc"}
         => (call.invoked = call.failed + 1
               /\ mgr[1].tr.objs = <<>> /\ ~mgr[1].cur_trans)

\* C10: timeout.  The deadline is the time of entry plus the timeout; with no
\* retries given, TransactionTimeoutError is raised only after a failed
\* attempt that found the clock past the deadline, and a failed attempt that
\* found it at or before the deadline is followed by another attempt.
C10_Timeout ==
  (call.pc # "none" /\ call.timeout # NoneVer) =>
    /\ call.deadline = call.start + call.timeout
    /\ call.retries = NoneVer =>
         /\ call.outcome = "TransactionTimeoutError"
              => (call.failed >= 1 /\ call.checked > call.deadline)
         /\ (Running /\ call.failed >= 1) => call.checked <= call.deadline
         /\ call.outcome # "TransactionRetryError"
         /\ (call.pc = "done" /\ call.failed >= 1
               /\ call.outcome \in {"return", "UserExc"})
              => call.checked <= call.deadline

\* an attempt committed and returned although the deadline had passed
\* while it ran
C10_Witness ==
  /\ call.timeout # NoneVer /\ call.retries = NoneVer
  /\ call.outcome = "return" /\ now > call.deadline
  /\ call.failed >= 1

\* C11: a proxy the caller kept that is_linked no longer reports as linked
\* (its object was replaced in the root graph and the replacement reached
\* this Manager) is not reported as linked again by any later step
C11_Detachment ==
  [][\A p \in mgr[1].held : \A q \in mgr'[1].held :
       ~Manager_is_linked(mgr[1], p) => ~Manager_is_linked(mgr'[1], q)]_vars

\* C12: after refresh(dfl) or read(dfl) returned with nothing stored in the
\* backend, the backend's read() reports the empty pair and the call
\* returned dfl
C12_EmptyRead ==
  (be.bvec = <<>> /\ usr[1].pc = "idle"
     /\ usr[1].res \in {"dfl", "NIL", "root"}) =>
    /\ Backend_read(be) = [version |-> NoneVer, payload |-> <<>>]
    /\ usr[1].res = "dfl"

\* C13: on a backend whose target_wait always returns, once the caller has
\* dropped its last reference to the Manager the watcher thread eventually
\* finds its weak reference dead and exits
C13_WatcherExits ==
  (be.kind = "file" /\ usr[1].pc = "gone") ~> (wat[1].pc = "exited")

\* C14: a call to target_wait that the watcher started eventually returns,
\* whether or not anybody writes again
C14_BoundedWait == (wat[1].pc = "wait") ~> (wat[1].pc # "wait")

\* C15: every load(dump(x)) the caller made, of a value or of a proxy,
\* returned (it did not raise) and returned an object equal to x
C15_RoundTrip ==
  (usr[1].pc = "idle" /\ usr[1].res \in {"raised", "equal", "differs"}) =>
    usr[1].res = "equal"

\* C16: a set_id call (made directly or by a Manager's constructor) with a
\* non-null id on a handle that has a different non-null id installed fails
\* and leaves the installed id as it was, and no two Managers own the same
\* handle
C16_SetIdOnce ==
  [][
      /\ \A h \in HandleIds :
          (bcall'.h = h /\ hnd[h].unique_id # NoUid /\ bcall'.uid # NoUid
             /\ bcall'.uid # hnd[h].unique_id) =>
            (~bcall'.ok /\ hnd'[h] = hnd[h])
      /\ \A m1, m2 \in Uids :
          (m1 # m2 /\ mgr'[m1].backend # 0) =>
            mgr'[m1].backend # mgr'[m2].backend
    ]_vars

\* a Manager owns a handle and the constructor of another Manager on the same
\* handle has just failed
C16_Witness ==
  /\ bcall.op = "Manager"
  /\ ~bcall.ok
  /\ \E m \in Uids : m # bcall.uid /\ mgr[m].backend = bcall.h
                       /\ hnd[bcall.h].unique_id = m

\* C17: whenever the caller is outside every transaction block (the
\* outermost exit has returned or raised), the transaction's objs is empty
\* and the Manager's cur_trans is cleared
C17_Release ==
  (usr[1].pc = "idle" /\ mgr[1].tr.depth = 0) =>
    (mgr[1].tr.objs = <<>> /\ ~mgr[1].cur_trans)

\* C18: once no transaction is in flight and the watcher is idle (it waits
\* and has seen the backend's current version), a refresh that the watcher
\* deferred does not remain pending with the Manager behind the backend
C18_DeferredRefresh ==
  (usr[1].pc = "idle" /\ mgr[1].tr.depth = 0 /\ ~mgr[1].cur_trans
     /\ wat[1].pc = "wait" /\ wat[1].version = be.version
     /\ mgr[1].needs_update) =>
    mgr[1].version >= be.version

\* C19: the caller's thread and the watcher thread are never at the same
\* time inside code that replaces the Manager's new_objmap, objmap, root or
\* version (the caller between the two statements of _load, the watcher
\* inside _refresh_locked)
C19_MutualExclusion ==
  ~(usr[1].pc = "w3" /\ wat[1].pc = "loading")

\* the xids the transaction traces, in order
TracedXids(M) == [i \in DOMAIN M.tr.objs |-> M.tr.objs[i].xid]

\* C20: an enter at depth > 0 only increments depth (the transaction's
\* version and traced objects stay, nothing is written); an exit that leaves
\* depth > 0 starts no commit and no rollback and writes nothing; the caller's
\* exit that brings depth to 0 starts the commit or the rollback; and the
\* compare-and-swap of a commit expects the Manager version captured when
\* the outermost block was entered
C20_Nesting ==
  [][
      /\ (mgr[1].tr.depth > 0 /\ mgr'[1].tr.depth = mgr[1].tr.depth + 1)
          => /\ mgr'[1].tr.version = mgr[1].tr.version
             /\ TracedXids(mgr'[1]) = TracedXids(mgr[1])
             /\ be' = be
      /\ (mgr'[1].tr.depth > 0 /\ mgr'[1].tr.depth = mgr[1].tr.depth - 1)
          => /\ usr'[1].pc = "idle"
             /\ TracedXids(mgr'[1]) = TracedXids(mgr[1])
             /\ mgr'[1].tr.version = mgr[1].tr.version
             /\ mgr'[1].cur_trans
             /\ be' = be
      /\ (usr[1].pc = "idle" /\ mgr[1].tr.depth = 1
            /\ mgr'[1].tr.depth = 0)
          => (usr'[1].pc \in {"cas", "unlink"} \/ usr'[1].out = "KeyError")
      /\ (usr'[1].pc = "fin" /\ mgr'[1].tr.entry # <<>>)
          => usr'[1].exp = mgr'[1].tr.entry[1].version
    ]_vars

\* a block nested inside another is open, objects are traced, and the
\* Manager's version has moved since the outermost block was entered
C20_Witness ==
  /\ mgr[1].tr.depth = MaxNest
  /\ usr[1].pc = "idle"
  /\ mgr[1].tr.objs # <<>>
  /\ mgr[1].tr.version # mgr[1].version

\* C21: when the backend raised inside the commit's try_write, the exit goes
\* on exactly as after a version mismatch: the traced objects are set back
\* to their recorded pre-images (the root reads its pre-image when no
\* deferred refresh replaces it), the transaction is unlinked (objs empty,
\* cur_trans cleared) and the exit raises TransactionError, never the
\* backend's exception
C21_BackendFailure ==
  [][
      /\ (usr[1].pc = "fin" /\ usr[1].berr /\ usr'[1].pc # "fin")
          => /\ usr'[1].pc = "unlink" /\ ~usr'[1].ret /\ ~usr'[1].exc
             /\ mgr'[1].tr.objs = <<>>
             /\ (~mgr[1].needs_update /\ mgr[1].tr.objs # <<>>)
                  => RootValue(mgr'[1])
                       = <<mgr[1].heap[mgr[1].tr.objs[1].prev]>>
      /\ (usr[1].pc = "unlink" /\ usr[1].berr /\ usr'[1].pc # "unlink")
          => /\ usr'[1].pc = "idle" /\ usr'[1].out = "TransactionError"
             /\ mgr'[1].tr.objs = <<>> /\ ~mgr'[1].cur_trans
    ]_vars

\* the exit of a transaction whose commit met a raising backend has raised
\* TransactionError, and the root reads its value from before the mutation
C21_Witness ==
  /\ usr[1].pc = "idle" /\ usr[1].berr /\ usr[1].out = "TransactionError"
  /\ mgr[1].root # 0 /\ RootValue(mgr[1]) = <<{}>>
  /\ mgr[1].tr.objs = <<>> /\ ~mgr[1].cur_trans

\* C22: while a transaction stays open, the pre-image it recorded for an
\* xid keeps its value: no later mutation of that object, through the same
\* or another proxy, replaces the record by one with another value or
\* changes the recorded value in place
C22_PreImageStable ==
  [][
      (mgr[1].tr.depth > 0 /\ mgr'[1].tr.depth > 0)
      => \A i \in DOMAIN mgr[1].tr.objs : \A j \in DOMAIN mgr'[1].tr.objs :
           (mgr[1].tr.objs[i].xid = mgr'[1].tr.objs[j].xid)
           => mgr'[1].heap[mgr'[1].tr.objs[j].prev]
                = mgr[1].heap[mgr[1].tr.objs[i].prev]
    ]_vars

\* C23: in every state, also while the watcher's refresh is in progress, a
\* linked proxy the caller has whose version equals the Manager's version
\* holds the value of the object map's entry for its xid
C23_VersionFresh ==
  \A p \in Handles(1) :
    LET P == mgr[1].prox[p] IN
    (P.att /\ Manager_is_linked(mgr[1], p) /\ P.version = mgr[1].version)
    => ValueOf(mgr[1], p) = ValueOf(mgr[1], mgr[1].objmap[P.xid])

\* C24: an id that load draws from the Manager's counter for the object it
\* links is not an id already present in the map being populated (load
\* populates new_objmap as it is), so no two distinct linked objects get the
\* same xid
C24_UniqueIds ==
  [][
      (usr[1].pc = "dumped" /\ mgr'[1].xidc # mgr[1].xidc)
      => mgr[1].new_objmap[mgr[1].xidc] = 0
    ]_vars

\* the cached root has an entry in objmap under its xid and the entry is
\* the root itself
RootMapped(M) ==
  M.root # 0 => M.objmap[M.prox[M.root].xid] = M.root

\* C25: whenever no write by the caller and no refresh by the watcher is in
\* progress, the Manager's root (the one distributed object reachable from
\* it) is the entry of objmap under its xid: objmap describes the blob of
\* the cached root
C25_MapComplete ==
  (usr[1].pc = "idle" /\ wat[1].pc # "loading") => RootMapped(mgr[1])

\* the root's xid (0 when the root is NIL) and the xids objmap has
RootXid(M) == IF M.root = 0 THEN 0 ELSE M.prox[M.root].xid
MapXids(M) == {x \in Xids : M.objmap[x] # 0}

C27_TrivialCommit ==
  [][
      (usr[1].pc = "exit" /\ mgr[1].tr.depth = 1 /\ usr'[1].pc # "exit")
      => (usr'[1].pc = "unlink" /\ usr'[1].ret /\ be' = be)
    ]_vars

\* C28: a commit attempt that commit goes on to treat as failed (it rolls
\* back and the exit raises TransactionError) has left the backend's blob
\* and version as they were; and after an attempt whose compare-and-swap
\* changed the backend the exit goes on to report success, with the Manager
\* at the written version or beyond and, at the written version, a root
\* that reads the written value
C28_AllOrNothing ==
  [][
      /\ (usr[1].pc = "cas" /\ usr'[1].pc = "fin"
            /\ ~Transaction_commit_try(usr'[1].ret, usr'[1].berr).ret)
          => be' = be
      /\ (usr[1].pc = "fin" /\ usr[1].ret /\ ~usr[1].berr
            /\ usr'[1].pc # "fin")
          => /\ usr'[1].pc = "unlink" /\ usr'[1].ret
             /\ mgr'[1].version >= usr[1].wver
             /\ (mgr'[1].version = usr[1].wver)
                  => RootValue(mgr'[1]) = <<usr[1].payload.val>>
    ]_vars

\* the value of the blob the backend stores, <<>> when it stores nothing
StoredValue == IF be.bvec = <<>> THEN <<>> ELSE <<be.bvec[1].val>>

\* Manager 1, when it is live and has no call or transaction in flight, is
\* at the backend's version and its root reads the stored value
Converged ==
  (usr[1].pc = "idle" /\ mgr[1].tr.depth = 0 /\ ~mgr[1].cur_trans)
  => (mgr[1].version = be.version /\ RootValue(mgr[1]) = StoredValue)

\* C29: with the watcher scheduled fairly, once the participants have
\* stopped writing (every behaviour has finitely many writes) the Manager,
\* whenever it is live with nothing in flight, is from some point on at the
\* backend's version with a root that reads the stored value, whether or
\* not the caller ever calls refresh
C29_Convergence == <>[]Converged

\* C30: with the watcher and the calling thread scheduled fairly, a call
\* wrapped by transactional with neither retries nor timeout set that has
\* entered its loop eventually returns the function's result
C30_RetryProgress ==
  (call.pc = "loop") ~> (call.pc = "done" /\ call.outcome = "return")

====
